---- MODULE Spec2Model ----
(***************************************************************************)
(* Model of pyNN.utility.MultiSim (src/src/utility.py, lines 61-113): a    *)
(* coordinator that builds one model ("net") per simulator module, offers  *)
(* a broadcast proxy through __getattr__, a stepped run loop with          *)
(* callbacks, and a teardown loop.                                         *)
(*                                                                         *)
(* Every call the coordinator makes on a collaborator (the net factory, a  *)
(* net method, sim.run, a callback, sim.end) is one step of the model; the *)
(* collaborator either returns or raises, chosen by the environment.       *)
(***************************************************************************)
EXTENDS Integers, Sequences, FiniteSets

(* ----------------------------- bounds ---------------------------------- *)

\* longest sim_list given to the constructor
MaxSims == 3
\* largest `steps` argument of run
MaxSteps == 2
\* largest number of callbacks given to run
MaxCallbacks == 2
\* number of calls made on the coordinator after construction
MaxCalls == 2

\* the simulator modules, identified by their __name__
Backends == {"nest", "neuron", "pcsim"}
\* the `parameters` objects handed to the constructor
ParameterSets == {"P"}
\* the `simtime` arguments of run
SimTimes == {3}
\* the argument tuples a broadcast is called with
ArgSets == {"x", "y"}
\* the values a net method returns
RetVals == {"r0", "r1"}
\* attribute names looked up on the coordinator
Names == {"run", "end", "__iter__", "__init__", "__getattr__", "__repr__",
          "nets", "sim_list", "record"}
\* names __getattr__ is called with by hand: one the class defines and one
\* it does not
GetattrArgs == {"run", "record"}

(* ----------------------------- helpers --------------------------------- *)

SeqsUpTo(S, n) == UNION {[1..m -> S] : m \in 0..n}

\* The simulators are interchangeable (the coordinator only reads their
\* __name__ as a dict key), so the lists given to the constructor are taken
\* up to renaming: a list introduces the names in the order of BackendRank.
BackendRank == [b \in Backends |->
                  CASE b = "nest" -> 1 [] b = "neuron" -> 2 [] OTHER -> 3]
UpToRenaming(s) ==
    \A p \in DOMAIN s :
       \/ BackendRank[s[p]] = 1
       \/ \E q \in 1..(p - 1) : BackendRank[s[q]] = BackendRank[s[p]] - 1
SimLists == {s \in SeqsUpTo(Backends, MaxSims) : UpToRenaming(s)}

Range(s) == {s[k] : k \in DOMAIN s}

EmptyDict == [k \in {} |-> 0]

RECURSIVE Gcd(_, _)
Gcd(a, b) == IF b = 0 THEN a ELSE Gcd(b, a % b)

\* simtime/steps without float(): Python 2 floor division of two ints
IntDiv(simtime, steps) == <<simtime \div steps, 1>>

\* float(simtime)/steps (line 104): true division, kept as a reduced
\* fraction <<numerator, denominator>>
FloatDiv(simtime, steps) ==
    LET g == Gcd(simtime, steps) IN <<simtime \div g, steps \div g>>

\* self.nets rebound to a fresh one-entry dict instead of stored into
SetItemRebind(d, key, value) == [k \in {key} |-> value]

\* self.nets[key] = value (line 80): a dict store, which replaces the value
\* of a key already present
SetItem(d, key, value) ==
    [k \in (DOMAIN d) \cup {key} |-> IF k = key THEN value ELSE d[k]]

\* The iteration orders a Python 2 dict can have after a store: a key that
\* is already present keeps its slot, a new key lands in a slot decided by
\* its hash, anywhere among the keys already there.
InsertOrders(order, key) ==
    IF key \in Range(order)
    THEN {order}
    ELSE {SubSeq(order, 1, p) \o <<key>> \o SubSeq(order, p + 1, Len(order)) :
            p \in 0..Len(order)}

(* ------------------------------ state ---------------------------------- *)

VARIABLES
    pc,          \* where the coordinator is: "init", "init_raised", "idle",
                 \* "invoke", "run_sim", "run_cb", "end"
    sim_list,    \* self.sim_list
    parameters,  \* the `parameters` argument of the constructor
    nets,        \* self.nets: simulator name -> net (a net is identified by
                 \* the position in sim_list it was built for)
    netsOrder,   \* iteration order of the dict self.nets
    factoryLog,  \* the calls made on the factory `net`, in order
    held,        \* the attribute last fetched from the coordinator
    cur,         \* the call being executed: name and arguments
    i,           \* step counter of run
    j,           \* index in the loop being executed
    retvals,     \* the dict a broadcast is filling
    trace,       \* the collaborator calls made by the current call
    effects,     \* per net: how many method calls it has completed
    result,      \* outcome of the last call on the coordinator
    callsLeft,   \* calls the caller may still make
    gen          \* 1 while the object is as MultiSim(...) built it, 2 once
                 \* __init__ has been called again on it

vars == <<pc, sim_list, parameters, nets, netsOrder, factoryLog, held, cur,
          i, j, retvals, trace, effects, result, callsLeft, gen>>

\* `explicit` marks a wrapper obtained by calling __getattr__ by hand, and
\* the call made through it
NoAttr == [kind |-> "none", name |-> "none", explicit |-> FALSE]
NoCall == [name |-> "none", explicit |-> FALSE, arg |-> "none",
           simtime |-> 0, steps |-> 0, dt |-> <<0, 1>>, ncb |-> 0]
\* outcome of a call on the coordinator: nothing yet, a returned value with
\* its Python type, or an exception that left the call
NoResult == [kind |-> "none", type |-> "none", value |-> "none"]
Return(type, value) == [kind |-> "return", type |-> type, value |-> value]
Raise(err) == [kind |-> "raise", type |-> "exception", value |-> err]

\* an exception, and the collaborator that raised it
Exc(type, on, target) == [exc |-> type, on |-> on, target |-> target]

\* one call on a collaborator
Event(on, target, name, arg, step, ok, ret) ==
    [on |-> on, target |-> target, name |-> name, arg |-> arg, step |-> step,
     ok |-> ok, ret |-> ret]

(* --------------------------- construction ------------------------------ *)

\* __init__, lines 77-78: self.sim_list = sim_list; self.nets = {}
Init ==
    /\ sim_list \in SimLists
    /\ parameters \in ParameterSets
    /\ pc = "init"
    /\ nets = EmptyDict
    /\ netsOrder = <<>>
    /\ factoryLog = <<>>
    /\ held = NoAttr
    /\ cur = NoCall
    /\ i = 0
    /\ j = 1
    /\ retvals = EmptyDict
    /\ trace = <<>>
    /\ effects = [p \in 1..Len(sim_list) |-> 0]
    /\ result = NoResult
    /\ callsLeft = MaxCalls
    /\ gen = 1

\* the exception of the factory swallowed, the loop going on with the next
\* simulator
InitRaiseContinue(idx, err) ==
    [pc |-> "init", j |-> idx + 1, result |-> NoResult]

\* the exception of net(sim, parameters) leaves __init__: the constructor
\* call MultiSim(...) raises and the caller gets no object; when __init__
\* was called again on a built coordinator, the caller keeps the object,
\* with the nets built so far
InitRaise(idx, err) ==
    IF gen = 1
    THEN [pc |-> "init_raised", j |-> idx, result |-> Raise(err)]
    ELSE [pc |-> "idle", j |-> 1, result |-> Raise(err)]

\* __init__, lines 79-80, one iteration in which the factory returns
InitStepOk ==
    /\ pc = "init"
    /\ j <= Len(sim_list)
    /\ nets' = SetItem(nets, sim_list[j], j)
    /\ netsOrder' \in InsertOrders(netsOrder, sim_list[j])
    /\ factoryLog' = Append(factoryLog,
            Event("factory", j, "net", <<sim_list[j], parameters>>, 0, TRUE, j))
    /\ j' = j + 1
    /\ UNCHANGED <<gen, pc, sim_list, parameters, held, cur, i, retvals, trace,
                   effects, result, callsLeft>>

\* __init__, lines 79-80, one iteration in which the factory raises
InitStepRaise ==
    /\ pc = "init"
    /\ j <= Len(sim_list)
    /\ LET err == Exc("Error", "factory", j)
           nxt == InitRaise(j, err)
       IN /\ factoryLog' = Append(factoryLog,
                 Event("factory", j, "net", <<sim_list[j], parameters>>, 0,
                       FALSE, err))
          /\ pc' = nxt.pc
          /\ j' = nxt.j
          /\ result' = nxt.result
    /\ UNCHANGED <<gen, sim_list, parameters, nets, netsOrder, held, cur, i,
                   retvals, trace, effects, callsLeft>>

\* __init__ returns after the loop of line 79 is exhausted
InitReturn ==
    /\ pc = "init"
    /\ j > Len(sim_list)
    /\ pc' = "idle"
    /\ j' = 1
    /\ result' = IF gen = 1 THEN result ELSE Return("None", "None")
    /\ UNCHANGED <<gen, sim_list, parameters, nets, netsOrder, factoryLog, held,
                   cur, i, retvals, trace, effects, callsLeft>>

(* -------------------------- attribute access --------------------------- *)

\* the functions defined in the class body (lines 70, 82, 85, 97, 111)
LocalMethods == {"__init__", "__iter__", "__getattr__", "run", "end"}
\* names set on the object by __init__ (lines 77-78)
LocalData == {"sim_list", "nets"}
\* what a new-style class gets from `object` (line 61) and from the class
\* statement
ObjectAttrs == {"__class__", "__delattr__", "__dict__", "__doc__",
                "__format__", "__getattribute__", "__hash__", "__module__",
                "__new__", "__reduce__", "__reduce_ex__", "__repr__",
                "__setattr__", "__sizeof__", "__str__", "__subclasshook__",
                "__weakref__"}
\* the names the normal lookup finds on a coordinator
LocalNames == LocalMethods \cup LocalData \cup ObjectAttrs

\* every lookup routed through __getattr__ (as __getattribute__ would do)
ResolveAll(name) == [kind |-> "wrapper", name |-> name, explicit |-> FALSE]

\* Attribute lookup on the coordinator: Python finds a name the object or
\* its class defines by the normal lookup, and only calls __getattr__
\* (line 85) for the others, which returns iterate_over_nets (line 95).
Resolve(name) ==
    [kind |-> IF name \in LocalMethods THEN "method"
              ELSE IF name \in LocalData THEN "data"
              ELSE IF name \in ObjectAttrs THEN "inherited"
              ELSE "wrapper",
     name |-> name,
     explicit |-> FALSE]

\* the caller fetches an attribute of the coordinator
GetAttr(name) ==
    /\ pc = "idle"
    /\ held = NoAttr
    /\ callsLeft > 0
    /\ held' = Resolve(name)
    /\ UNCHANGED <<gen, pc, sim_list, parameters, nets, netsOrder, factoryLog, cur,
                   i, j, retvals, trace, effects, result, callsLeft>>

\* the caller calls self.nets or self.sim_list: a dict or a list is not
\* callable
CallData ==
    /\ pc = "idle"
    /\ held.kind = "data"
    /\ cur' = [NoCall EXCEPT !.name = held.name]
    /\ held' = NoAttr
    /\ trace' = <<>>
    /\ result' = Raise(Exc("TypeError", "caller", 0))
    /\ callsLeft' = callsLeft - 1
    /\ UNCHANGED <<gen, pc, sim_list, parameters, nets, netsOrder, factoryLog, i,
                   j, retvals, effects>>

\* __iter__ (lines 82-83): returns self.nets.itervalues()
CallIter ==
    /\ pc = "idle"
    /\ held = [kind |-> "method", name |-> "__iter__", explicit |-> FALSE]
    /\ cur' = [NoCall EXCEPT !.name = "__iter__"]
    /\ held' = NoAttr
    /\ trace' = <<>>
    /\ result' = Return("iterator", "itervalues")
    /\ callsLeft' = callsLeft - 1
    /\ UNCHANGED <<gen, pc, sim_list, parameters, nets, netsOrder, factoryLog, i,
                   j, retvals, effects>>

\* the caller calls __repr__(), inherited from object: it returns a str
CallRepr ==
    /\ pc = "idle"
    /\ held = [kind |-> "inherited", name |-> "__repr__", explicit |-> FALSE]
    /\ cur' = [NoCall EXCEPT !.name = "__repr__"]
    /\ held' = NoAttr
    /\ trace' = <<>>
    /\ result' = Return("str", "repr")
    /\ callsLeft' = callsLeft - 1
    /\ UNCHANGED <<gen, pc, sim_list, parameters, nets, netsOrder, factoryLog,
                   i, j, retvals, effects>>

\* the caller calls __getattr__(name) by hand (lines 85-95): it returns
\* iterate_over_nets for `name`, whatever the name, and calls no net
CallGetattr(name) ==
    /\ pc = "idle"
    /\ held = [kind |-> "method", name |-> "__getattr__", explicit |-> FALSE]
    /\ cur' = [NoCall EXCEPT !.name = "__getattr__"]
    /\ held' = [kind |-> "wrapper", name |-> name, explicit |-> TRUE]
    /\ trace' = <<>>
    /\ result' = Return("function", "iterate_over_nets")
    /\ UNCHANGED <<gen, pc, sim_list, parameters, nets, netsOrder, factoryLog,
                   i, j, retvals, effects, callsLeft>>

\* the caller calls __init__(sim_list, net, parameters) on a built
\* coordinator: lines 77-78 again, the nets built before are dropped
CallInit(sl, p) ==
    /\ pc = "idle"
    /\ held = [kind |-> "method", name |-> "__init__", explicit |-> FALSE]
    /\ cur' = [NoCall EXCEPT !.name = "__init__"]
    /\ held' = NoAttr
    /\ trace' = <<>>
    /\ result' = NoResult
    /\ sim_list' = sl
    /\ parameters' = p
    /\ nets' = EmptyDict
    /\ netsOrder' = <<>>
    /\ factoryLog' = <<>>
    /\ effects' = [q \in 1..Len(sl) |-> 0]
    /\ pc' = "init"
    /\ j' = 1
    /\ gen' = 2
    /\ callsLeft' = callsLeft - 1
    /\ UNCHANGED <<i, retvals>>

(* ------------------------------ broadcast ------------------------------ *)

\* self.nets.items() (line 92): the (key, value) pairs in the dict's order
Items ==
    [p \in 1..Len(netsOrder) |-> <<netsOrder[p], nets[netsOrder[p]]>>]

\* retvals created afresh in each iteration
StoreRetFresh(d, key, value) == [k \in {key} |-> value]

\* retvals[sim_name] = ... (line 93)
StoreRet(d, key, value) == SetItem(d, key, value)

\* the exception caught and the results collected so far returned
BroadcastRaisePartial(err, partial) == Return("dict", partial)

\* an exception raised inside the loop of iterate_over_nets is not caught:
\* it leaves the call, and the local retvals is dropped
BroadcastRaise(err, partial) == Raise(err)

\* the caller calls iterate_over_nets(*args, **kwargs): line 91
CallWrapper(arg) ==
    /\ pc = "idle"
    /\ held.kind = "wrapper"
    /\ cur' = [NoCall EXCEPT !.name = held.name, !.explicit = held.explicit,
                             !.arg = arg]
    /\ held' = NoAttr
    /\ trace' = <<>>
    /\ retvals' = EmptyDict
    /\ result' = NoResult
    /\ pc' = "invoke"
    /\ j' = 1
    /\ callsLeft' = callsLeft - 1
    /\ UNCHANGED <<gen, sim_list, parameters, nets, netsOrder, factoryLog, i,
                   effects>>

\* lines 92-93, one iteration in which getattr(net, name)(...) returns v
InvokeStepOk(v) ==
    /\ pc = "invoke"
    /\ j <= Len(Items)
    /\ LET key == Items[j][1]
           net == Items[j][2]
       IN /\ retvals' = StoreRet(retvals, key, v)
          /\ trace' = Append(trace,
                 Event("net", net, cur.name, cur.arg, 0, TRUE, v))
          /\ effects' = [effects EXCEPT ![net] = @ + 1]
    /\ j' = j + 1
    /\ UNCHANGED <<gen, pc, sim_list, parameters, nets, netsOrder, factoryLog,
                   held, cur, i, result, callsLeft>>

\* lines 92-93, one iteration in which the net lacks the method
\* (AttributeError from getattr) or the method raises
InvokeStepRaise(type) ==
    /\ pc = "invoke"
    /\ j <= Len(Items)
    /\ LET net == Items[j][2]
           err == Exc(type, "net", net)
       IN /\ trace' = Append(trace,
                 Event("net", net, cur.name, cur.arg, 0, FALSE, err))
          /\ result' = BroadcastRaise(err, retvals)
    /\ retvals' = EmptyDict
    /\ pc' = "idle"
    /\ j' = 1
    /\ UNCHANGED <<gen, sim_list, parameters, nets, netsOrder, factoryLog, held,
                   cur, i, effects, callsLeft>>

\* line 94: return retvals
InvokeReturn ==
    /\ pc = "invoke"
    /\ j > Len(Items)
    /\ result' = Return("dict", retvals)
    /\ retvals' = EmptyDict
    /\ pc' = "idle"
    /\ j' = 1
    /\ UNCHANGED <<gen, sim_list, parameters, nets, netsOrder, factoryLog, held,
                   cur, i, trace, effects, callsLeft>>

(* ---------------------------- stepped run ------------------------------ *)

\* the loops walking sim_list backwards
SimIterReversed == [p \in 1..Len(sim_list) |-> Len(sim_list) + 1 - p]

\* `for sim in self.sim_list` (lines 106 and 112): the positions of
\* sim_list in the order the loop visits them
SimIter == [p \in 1..Len(sim_list) |-> p]

\* run with the callback loop dedented out of the step loop: the callbacks
\* only follow the last step
RECURSIVE RunAtDedent(_, _, _, _, _)
RunAtDedent(step, phase, idx, steps, ncb) ==
    IF step >= steps THEN [pc |-> "idle", i |-> 0, j |-> 1]
    ELSE IF phase = "run_sim"
    THEN IF idx <= Len(sim_list)
         THEN [pc |-> "run_sim", i |-> step, j |-> idx]
         ELSE IF step = steps - 1
              THEN RunAtDedent(step, "run_cb", 1, steps, ncb)
              ELSE RunAtDedent(step + 1, "run_sim", 1, steps, ncb)
    ELSE IF idx <= ncb
         THEN [pc |-> "run_cb", i |-> step, j |-> idx]
         ELSE RunAtDedent(step + 1, "run_sim", 1, steps, ncb)

\* The next call of run's loops (lines 105-109) from step `step`, loop
\* `phase` and index idx: the sims of a step, then the callbacks of that
\* step, then the next step; "idle" once range(steps) is exhausted.
RECURSIVE RunAt(_, _, _, _, _)
RunAt(step, phase, idx, steps, ncb) ==
    IF step >= steps THEN [pc |-> "idle", i |-> 0, j |-> 1]
    ELSE IF phase = "run_sim"
    THEN IF idx <= Len(sim_list)
         THEN [pc |-> "run_sim", i |-> step, j |-> idx]
         ELSE RunAt(step, "run_cb", 1, steps, ncb)
    ELSE IF idx <= ncb
         THEN [pc |-> "run_cb", i |-> step, j |-> idx]
         ELSE RunAt(step + 1, "run_sim", 1, steps, ncb)

\* run returns None when its loops are exhausted
RunResult(at) == IF at.pc = "idle"
                 THEN Return("None", "None")
                 ELSE NoResult

\* the exception swallowed, run going on with the next call of its loops
RunRaiseSwallow(step, phase, idx, err) ==
    LET at == RunAt(step, phase, idx + 1, cur.steps, cur.ncb)
    IN [pc |-> at.pc, i |-> at.i, j |-> at.j, result |-> RunResult(at)]

\* an exception of sim.run(dt) or of func() is not caught: it leaves run
RunRaise(step, phase, idx, err) ==
    [pc |-> "idle", i |-> 0, j |-> 1, result |-> Raise(err)]

\* the caller calls run(simtime, steps, *callbacks): line 104, and the
\* entry into the loops. The callbacks are identified by their position
\* 1..ncb in the argument list.
CallRun(simtime, steps, ncb) ==
    /\ pc = "idle"
    /\ held = [kind |-> "method", name |-> "run", explicit |-> FALSE]
    /\ held' = NoAttr
    /\ trace' = <<>>
    /\ callsLeft' = callsLeft - 1
    /\ IF steps = 0
       THEN \* float(simtime)/0 raises ZeroDivisionError
            /\ cur' = [NoCall EXCEPT !.name = "run", !.simtime = simtime,
                                     !.steps = steps, !.ncb = ncb]
            /\ result' = Raise(Exc("ZeroDivisionError", "caller", 0))
            /\ UNCHANGED <<gen, pc, i, j>>
       ELSE LET at == RunAt(0, "run_sim", 1, steps, ncb)
            IN /\ cur' = [NoCall EXCEPT !.name = "run", !.simtime = simtime,
                                        !.steps = steps, !.ncb = ncb,
                                        !.dt = FloatDiv(simtime, steps)]
               /\ pc' = at.pc
               /\ i' = at.i
               /\ j' = at.j
               /\ result' = RunResult(at)
    /\ UNCHANGED <<gen, sim_list, parameters, nets, netsOrder, factoryLog,
                   retvals, effects>>

\* line 107: sim.run(dt) returns
RunSimOk ==
    /\ pc = "run_sim"
    /\ LET at == RunAt(i, "run_sim", j + 1, cur.steps, cur.ncb)
       IN /\ trace' = Append(trace,
                 Event("sim", SimIter[j], "run", cur.dt, i, TRUE, "None"))
          /\ pc' = at.pc
          /\ i' = at.i
          /\ j' = at.j
          /\ result' = RunResult(at)
    /\ UNCHANGED <<gen, sim_list, parameters, nets, netsOrder, factoryLog, held,
                   cur, retvals, effects, callsLeft>>

\* line 107: sim.run(dt) raises
RunSimRaise ==
    /\ pc = "run_sim"
    /\ LET err == Exc("Error", "sim", SimIter[j])
           nxt == RunRaise(i, "run_sim", j, err)
       IN /\ trace' = Append(trace,
                 Event("sim", SimIter[j], "run", cur.dt, i, FALSE, err))
          /\ pc' = nxt.pc
          /\ i' = nxt.i
          /\ j' = nxt.j
          /\ result' = nxt.result
    /\ UNCHANGED <<gen, sim_list, parameters, nets, netsOrder, factoryLog, held,
                   cur, retvals, effects, callsLeft>>

\* line 109: func() returns
RunCbOk ==
    /\ pc = "run_cb"
    /\ LET at == RunAt(i, "run_cb", j + 1, cur.steps, cur.ncb)
       IN /\ trace' = Append(trace,
                 Event("callback", j, "func", <<>>, i, TRUE, "None"))
          /\ pc' = at.pc
          /\ i' = at.i
          /\ j' = at.j
          /\ result' = RunResult(at)
    /\ UNCHANGED <<gen, sim_list, parameters, nets, netsOrder, factoryLog, held,
                   cur, retvals, effects, callsLeft>>

\* line 109: func() raises
RunCbRaise ==
    /\ pc = "run_cb"
    /\ LET err == Exc("Error", "callback", j)
           nxt == RunRaise(i, "run_cb", j, err)
       IN /\ trace' = Append(trace,
                 Event("callback", j, "func", <<>>, i, FALSE, err))
          /\ pc' = nxt.pc
          /\ i' = nxt.i
          /\ j' = nxt.j
          /\ result' = nxt.result
    /\ UNCHANGED <<gen, sim_list, parameters, nets, netsOrder, factoryLog, held,
                   cur, retvals, effects, callsLeft>>

(* ------------------------------ teardown ------------------------------- *)

\* the loop of end skipping every other entry
EndNextSkip(idx) == idx + 2

\* the loop of end (line 112) moves to the next entry of sim_list
EndNext(idx) == idx + 1

\* the caller calls end()
CallEnd ==
    /\ pc = "idle"
    /\ held = [kind |-> "method", name |-> "end", explicit |-> FALSE]
    /\ cur' = [NoCall EXCEPT !.name = "end"]
    /\ held' = NoAttr
    /\ trace' = <<>>
    /\ result' = NoResult
    /\ pc' = "end"
    /\ j' = 1
    /\ callsLeft' = callsLeft - 1
    /\ UNCHANGED <<gen, sim_list, parameters, nets, netsOrder, factoryLog, i,
                   retvals, effects>>

\* line 113: sim.end() returns
EndStepOk ==
    /\ pc = "end"
    /\ j <= Len(sim_list)
    /\ trace' = Append(trace,
            Event("sim", SimIter[j], "end", <<>>, 0, TRUE, "None"))
    /\ j' = EndNext(j)
    /\ UNCHANGED <<gen, pc, sim_list, parameters, nets, netsOrder, factoryLog,
                   held, cur, i, retvals, effects, result, callsLeft>>

\* line 113: sim.end() raises, and the exception leaves end
EndStepRaise ==
    /\ pc = "end"
    /\ j <= Len(sim_list)
    /\ LET err == Exc("Error", "sim", SimIter[j])
       IN /\ trace' = Append(trace,
                 Event("sim", SimIter[j], "end", <<>>, 0, FALSE, err))
          /\ result' = Raise(err)
    /\ pc' = "idle"
    /\ j' = 1
    /\ UNCHANGED <<gen, sim_list, parameters, nets, netsOrder, factoryLog, held,
                   cur, i, retvals, effects, callsLeft>>

\* end returns None after the loop of line 112 is exhausted
EndReturn ==
    /\ pc = "end"
    /\ j > Len(sim_list)
    /\ result' = Return("None", "None")
    /\ pc' = "idle"
    /\ j' = 1
    /\ UNCHANGED <<gen, sim_list, parameters, nets, netsOrder, factoryLog, held,
                   cur, i, retvals, trace, effects, callsLeft>>

(* --------------------------- specification ----------------------------- *)

Next ==
    \/ InitStepOk
    \/ InitStepRaise
    \/ InitReturn
    \/ \E name \in Names : GetAttr(name)
    \/ CallData
    \/ CallIter
    \/ CallRepr
    \/ \E name \in GetattrArgs : CallGetattr(name)
    \/ \E sl \in SimLists, p \in ParameterSets : CallInit(sl, p)
    \/ \E arg \in ArgSets : CallWrapper(arg)
    \/ \E v \in RetVals : InvokeStepOk(v)
    \/ \E type \in {"AttributeError", "Error"} : InvokeStepRaise(type)
    \/ InvokeReturn
    \/ \E simtime \in SimTimes, steps \in 0..MaxSteps, ncb \in 0..MaxCallbacks :
          CallRun(simtime, steps, ncb)
    \/ RunSimOk
    \/ RunSimRaise
    \/ RunCbOk
    \/ RunCbRaise
    \/ CallEnd
    \/ EndStepOk
    \/ EndStepRaise
    \/ EndReturn

Spec == Init /\ [][Next]_vars

(* ------------------------------ properties ----------------------------- *)

Idx == DOMAIN trace

IsSimRun(e) == e.on = "sim" /\ e.name = "run"
IsCallback(e) == e.on = "callback"

\* the current or last call on the coordinator is of the attribute found
\* by looking `name` up on the coordinator
Calling(name) == cur.name = name /\ ~cur.explicit

\* the last call on the coordinator was `name` and it returned
Returned(name) == pc = "idle" /\ Calling(name) /\ result.kind = "return"

\* the current or last call on the coordinator is of a name the normal
\* lookup does not find
NonLocalCall == ~cur.explicit /\ cur.name \notin LocalNames \cup {"none"}

\* the current or last call on the coordinator is of iterate_over_nets
InBroadcast == NonLocalCall \/ cur.explicit

NoDuplicates ==
    \A p, q \in DOMAIN sim_list : sim_list[p] = sim_list[q] => p = q

\* how many calls of method `name` net `n` completed in the current call
NetCalls(n, name) ==
    Cardinality({k \in Idx : /\ trace[k].on = "net"
                             /\ trace[k].target = n
                             /\ trace[k].name = name
                             /\ trace[k].ok})

\* sim_list is walked front to back by run (within each step) and by end
SimListOrder ==
    /\ Calling("run") =>
         \A k1, k2 \in Idx :
            (/\ k1 < k2
             /\ IsSimRun(trace[k1])
             /\ IsSimRun(trace[k2])
             /\ trace[k1].step = trace[k2].step)
            => trace[k1].target < trace[k2].target
    /\ Calling("end") =>
         \A k1, k2 \in Idx : k1 < k2 => trace[k1].target < trace[k2].target

\* C1 (as amended): run (in every step) and end visit the backends in the
\* order of the list given to the constructor; a broadcast visits the nets
\* in the iteration order of the dict self.nets, which is the same for
\* every broadcast but need not be the registration order.
C1_VisitOrder ==
    /\ SimListOrder
    /\ InBroadcast =>
         /\ Len(trace) <= Len(netsOrder)
         /\ \A k \in Idx : trace[k].target = nets[netsOrder[k]]

\* C1 (as stated): a broadcast, every step of run, and end all visit the
\* backends in registration order.
C1_RegistrationOrder ==
    NoDuplicates =>
        /\ SimListOrder
        /\ InBroadcast =>
             \A k1, k2 \in Idx :
                k1 < k2 => trace[k1].target < trace[k2].target

\* a broadcast over three nets returned, and visited them in an order that
\* is not the registration order
C1_Witness ==
    /\ pc = "idle"
    /\ InBroadcast
    /\ result.type = "dict"
    /\ Len(trace) = 3
    /\ trace[1].target > trace[2].target

\* C2 (as amended): run(simtime, steps, *callbacks) with steps >= 1 calls,
\* in each step and for each entry of sim_list in list order, the run
\* function of that simulator module (sim.run, where the claim has the run
\* method of the net built for it) exactly once with dt = simtime/steps; a
\* run that returns has called sim.run for every entry exactly `steps`
\* times, and no entry is run in step i+1 before every entry has been run
\* in step i.
C2_BackendRun ==
    Calling("run") =>
        /\ \A k \in Idx : IsSimRun(trace[k]) =>
              /\ trace[k].arg[1] * cur.steps = cur.simtime * trace[k].arg[2]
              /\ \A k2 \in Idx :
                    (/\ k2 < k
                     /\ IsSimRun(trace[k2])
                     /\ trace[k2].step = trace[k].step)
                    => trace[k2].target < trace[k].target
              /\ \A k2 \in Idx :
                    (/\ IsSimRun(trace[k2])
                     /\ trace[k2].target = trace[k].target
                     /\ trace[k2].step = trace[k].step) => k2 = k
              /\ trace[k].step > 0 =>
                    \A p \in DOMAIN sim_list :
                       \E k1 \in 1..(k - 1) :
                           /\ IsSimRun(trace[k1])
                           /\ trace[k1].ok
                           /\ trace[k1].target = p
                           /\ trace[k1].step = trace[k].step - 1
        /\ Returned("run") =>
              \A p \in DOMAIN sim_list :
                 /\ Cardinality({k \in Idx : /\ IsSimRun(trace[k])
                                             /\ trace[k].ok
                                             /\ trace[k].target = p})
                       = cur.steps
                 /\ \A s \in 0..(cur.steps - 1) :
                       \E k \in Idx : /\ IsSimRun(trace[k])
                                      /\ trace[k].target = p
                                      /\ trace[k].step = s

\* C2 (as stated): a run that returns has called the run method of every
\* registered net exactly `steps` times.
C2_InstanceRun ==
    Returned("run") =>
        \A key \in DOMAIN nets : NetCalls(nets[key], "run") = cur.steps

\* run(3, 2) over three backends returned
C2_Witness ==
    /\ Returned("run")
    /\ cur.simtime = 3
    /\ cur.steps = 2
    /\ Len(sim_list) = 3
    /\ Len(trace) >= 6

\* C3 (as amended): in each step of run the callbacks are called with no
\* arguments, in the order given, after sim.run has returned for every
\* entry of sim_list in that step and before any sim.run of a later step;
\* a run that returns has called every callback exactly `steps` times.
C3_Callbacks ==
    Calling("run") =>
        /\ \A k \in Idx : IsCallback(trace[k]) =>
              /\ trace[k].arg = <<>>
              /\ \A p \in DOMAIN sim_list :
                    \E k1 \in 1..(k - 1) :
                        /\ IsSimRun(trace[k1])
                        /\ trace[k1].ok
                        /\ trace[k1].target = p
                        /\ trace[k1].step = trace[k].step
              /\ \A c \in 1..(trace[k].target - 1) :
                    \E k1 \in 1..(k - 1) :
                        /\ IsCallback(trace[k1])
                        /\ trace[k1].ok
                        /\ trace[k1].target = c
                        /\ trace[k1].step = trace[k].step
              /\ \A k2 \in Idx :
                    (k2 > k /\ IsSimRun(trace[k2]))
                    => trace[k2].step > trace[k].step
              /\ \A k2 \in Idx :
                    (/\ IsCallback(trace[k2])
                     /\ trace[k2].target = trace[k].target
                     /\ trace[k2].step = trace[k].step) => k2 = k
        /\ Returned("run") =>
              \A c \in 1..cur.ncb :
                 Cardinality({k \in Idx : /\ IsCallback(trace[k])
                                          /\ trace[k].ok
                                          /\ trace[k].target = c})
                    = cur.steps

\* C3 (as stated): a callback of a step is called after every net has
\* completed its run call for that step.
C3_AfterInstanceRuns ==
    Calling("run") =>
        \A k \in Idx : IsCallback(trace[k]) =>
            \A key \in DOMAIN nets :
               \E k1 \in 1..(k - 1) :
                   /\ trace[k1].on = "net"
                   /\ trace[k1].target = nets[key]
                   /\ trace[k1].name = "run"
                   /\ trace[k1].step = trace[k].step

\* a run of two steps with two callbacks over at least two backends returned
C3_Witness ==
    /\ Returned("run")
    /\ cur.steps = 2
    /\ cur.ncb = 2
    /\ Len(sim_list) >= 2
    /\ Cardinality({k \in Idx : IsCallback(trace[k])}) = 4

\* C4 (as amended): for a name the normal lookup does not find on the
\* coordinator (so not run, end, __iter__, __init__, __getattr__, sim_list,
\* nets, nor a name inherited from object), a call of that attribute in
\* which every net call succeeds calls the method once on every registered
\* net with the caller's arguments, and returns a dict whose keys are the
\* keys of self.nets and whose value at each key is what that key's net
\* returned.
C4_Broadcast ==
    (pc = "idle" /\ NonLocalCall /\ result.kind = "return") =>
        /\ result.type = "dict"
        /\ DOMAIN result.value = DOMAIN nets
        /\ Len(trace) = Cardinality(DOMAIN nets)
        /\ \A key \in DOMAIN nets :
              /\ NetCalls(nets[key], cur.name) = 1
              /\ \E k \in Idx : /\ trace[k].on = "net"
                                /\ trace[k].target = nets[key]
                                /\ trace[k].name = cur.name
                                /\ trace[k].arg = cur.arg
                                /\ trace[k].ok
                                /\ trace[k].ret = result.value[key]

\* C4 (as stated): on a coordinator of at least one backend, for any name
\* other than run and end, a call of that attribute in which no net call
\* fails returns a dict keyed like self.nets, after one call on every
\* registered net.
C4_AnyName ==
    (/\ pc = "idle"
     /\ gen = 1
     /\ Len(sim_list) >= 1
     /\ ~cur.explicit
     /\ cur.name \notin {"none", "run", "end"}
     /\ \A k \in Idx : trace[k].ok) =>
        /\ result.type = "dict"
        /\ DOMAIN result.value = DOMAIN nets
        /\ \A key \in DOMAIN nets : NetCalls(nets[key], cur.name) = 1

\* a broadcast over three nets returned, and the nets did not all return
\* the same value
C4_Witness ==
    /\ pc = "idle"
    /\ NonLocalCall
    /\ result.type = "dict"
    /\ Cardinality(DOMAIN nets) = 3
    /\ \E k1, k2 \in DOMAIN nets : result.value[k1] # result.value[k2]

C5_Inv ==
    InBroadcast =>
        \A k \in Idx :
           /\ trace[k].target = nets[netsOrder[k]]
           /\ ~trace[k].ok =>
                 /\ k = Len(trace)
                 /\ pc = "idle"
                 /\ result.kind = "raise"
                 /\ result.value = trace[k].ret
                 /\ result.type # "dict"
                 /\ \A k1 \in 1..(k - 1) : trace[k1].ok

C5_Act ==
    /\ pc' # "init" => \A n \in DOMAIN effects : effects'[n] >= effects[n]
    /\ (pc = "invoke" /\ result'.kind = "raise") =>
          /\ effects' = effects
          /\ Len(trace') = Len(trace) + 1
          /\ Len(trace') = j

\* C5: when a net call raises during a broadcast, that exception leaves the
\* broadcast at once: no dict is returned, the nets later in iteration order
\* are not called, and what the earlier nets completed is not undone.
C5_BroadcastFailFast == []C5_Inv /\ [][C5_Act]_vars

\* a broadcast over three nets raised at the second one, after the first
\* one had completed its call
C5_Witness ==
    /\ pc = "idle"
    /\ InBroadcast
    /\ result.kind = "raise"
    /\ Cardinality(DOMAIN nets) = 3
    /\ Len(trace) = 2
    /\ effects[trace[1].target] >= 1

\* C6 (as amended): end() calls the end function of each entry of sim_list
\* (the simulator module, not the net built for it) exactly once, in list
\* order; if the call of entry k raises, the exception leaves end at once,
\* the entries after k are not called and the entries before k have each
\* been called once.
C6_BackendEnd ==
    Calling("end") =>
        /\ Len(trace) <= Len(sim_list)
        /\ \A k \in Idx :
              /\ trace[k].on = "sim"
              /\ trace[k].name = "end"
              /\ trace[k].target = k
              /\ trace[k].arg = <<>>
              /\ ~trace[k].ok =>
                    /\ k = Len(trace)
                    /\ pc = "idle"
                    /\ result.kind = "raise"
                    /\ result.value = trace[k].ret
        /\ Returned("end") => Len(trace) = Len(sim_list)
        /\ (pc = "idle" /\ \A k \in Idx : trace[k].ok) => Returned("end")

\* C6 (as stated): an end() that returns has called the end method of every
\* registered net exactly once.
C6_InstanceEnd ==
    Returned("end") =>
        \A key \in DOMAIN nets : NetCalls(nets[key], "end") = 1

\* end() over three backends raised at the second one
C6_Witness ==
    /\ pc = "idle"
    /\ Calling("end")
    /\ result.kind = "raise"
    /\ Len(sim_list) = 3
    /\ Len(trace) = 2
    /\ trace[1].ok

\* C7: once the constructor has returned, the factory has been called once
\* per entry of sim_list with (sim, parameters), the keys of self.nets are
\* the names in sim_list, and each key holds the net the factory built for
\* it, in every state reached by later broadcast, run and end calls (and
\* any other call that does not enter __init__ again).
C7_Registry ==
    (gen = 1 /\ pc \notin {"init", "init_raised"}) =>
        /\ DOMAIN nets = Range(sim_list)
        /\ Len(factoryLog) = Len(sim_list)
        /\ \A p \in DOMAIN sim_list :
              /\ factoryLog[p].target = p
              /\ factoryLog[p].arg = <<sim_list[p], parameters>>
              /\ factoryLog[p].ok
        /\ \A key \in DOMAIN nets :
              \E p \in DOMAIN sim_list :
                 /\ sim_list[p] = key
                 /\ nets[key] = factoryLog[p].ret
                 /\ \A q \in DOMAIN sim_list : sim_list[q] = key => q <= p

\* two calls, the last of which raised, were made on a coordinator of three
\* distinct backends
C7_Witness ==
    /\ gen = 1
    /\ pc = "idle"
    /\ callsLeft = 0
    /\ result.kind = "raise"
    /\ Cardinality(DOMAIN nets) = 3
    /\ \E n \in DOMAIN effects : effects[n] > 0

\* C8: the constructor call MultiSim(...) calls the factory for the entries
\* of sim_list one after the other; if a call raises, the exception leaves
\* the constructor, no later entry is built and no call is ever made on a
\* coordinator; if no call raises, every entry is built.
C8_Construction ==
    gen = 1 =>
        /\ Len(factoryLog) <= Len(sim_list)
        /\ \A p \in DOMAIN factoryLog :
              /\ factoryLog[p].target = p
              /\ factoryLog[p].arg = <<sim_list[p], parameters>>
              /\ ~factoryLog[p].ok =>
                    /\ p = Len(factoryLog)
                    /\ pc = "init_raised"
                    /\ result.kind = "raise"
                    /\ result.value = factoryLog[p].ret
        /\ pc = "init" => Len(factoryLog) = j - 1
        /\ pc = "init_raised" =>
              /\ Len(factoryLog) >= 1
              /\ ~factoryLog[Len(factoryLog)].ok
              /\ held = NoAttr
              /\ cur = NoCall
              /\ trace = <<>>
              /\ callsLeft = MaxCalls
        /\ pc \notin {"init", "init_raised"} => Len(factoryLog) = Len(sim_list)

\* the factory raised for the second of three backends
C8_Witness ==
    /\ pc = "init_raised"
    /\ Len(sim_list) = 3
    /\ Len(factoryLog) = 2

\* number of run calls entry p of sim_list completed in the current run
SimRuns(p) ==
    Cardinality({k \in Idx : /\ IsSimRun(trace[k])
                             /\ trace[k].ok
                             /\ trace[k].target = p})

\* C9: when sim.run raises for entry k of sim_list in step i, the exception
\* leaves run at once: it is the last call run makes, no callback has been
\* called for step i, the entries before k have completed i+1 run calls and
\* entry k and the later ones only i.
C9_RunFailFast ==
    Calling("run") =>
        \A k \in Idx : ~trace[k].ok =>
           /\ k = Len(trace)
           /\ pc = "idle"
           /\ result.kind = "raise"
           /\ result.value = trace[k].ret
           /\ IsSimRun(trace[k]) =>
                 /\ \A p \in DOMAIN sim_list :
                       SimRuns(p) = IF p < trace[k].target
                                    THEN trace[k].step + 1
                                    ELSE trace[k].step
                 /\ \A k1 \in Idx :
                       IsCallback(trace[k1]) => trace[k1].step < trace[k].step

\* sim.run raised for the second of three backends in the second step of a
\* run with callbacks
C9_Witness ==
    /\ pc = "idle"
    /\ Calling("run")
    /\ cur.ncb >= 1
    /\ result.kind = "raise"
    /\ Len(sim_list) = 3
    /\ Len(trace) >= 1
    /\ IsSimRun(trace[Len(trace)])
    /\ trace[Len(trace)].target = 2
    /\ trace[Len(trace)].step = 1

C10_Inv ==
    /\ held # NoAttr =>
          /\ pc = "idle"
          /\ ~held.explicit =>
                (held.kind = "wrapper" <=> held.name \notin LocalNames)
          /\ (~held.explicit /\ held.name \in {"run", "end"}) =>
                held.kind = "method"
    /\ (Calling("run") \/ Calling("end")) =>
          /\ pc # "invoke"
          /\ result.type # "dict"
          /\ \A k \in Idx : trace[k].on \in {"sim", "callback"}
    /\ pc = "invoke" => InBroadcast

C10_Act ==
    /\ (held = NoAttr /\ held' # NoAttr) =>
          UNCHANGED <<gen, pc, trace, effects, result, retvals>>
    /\ (Len(trace') > Len(trace) /\ trace'[Len(trace')].on = "net") =>
          (pc = "invoke" /\ held = NoAttr)

\* C10: looked up on the coordinator, run and end are found on the class
\* and never reach __getattr__: calling them runs the stepped loop or the
\* teardown, calls no net and returns no dict; any name the normal lookup
\* does not find yields the broadcast wrapper, and fetching the wrapper
\* calls nothing: nets are called, and a missing method fails, only when
\* the wrapper is called.
C10_LocalNames == []C10_Inv /\ [][C10_Act]_vars

\* after a run that called the simulators, a broadcast wrapper has been
\* fetched and not yet called
C10_Witness ==
    /\ pc = "idle"
    /\ held.kind = "wrapper"
    /\ ~held.explicit
    /\ Calling("run")
    /\ result.kind = "return"
    /\ Len(trace) > 0
====
